---- MODULE Spec2Model ----
(***************************************************************************)
(* State-machine model of src/src/App.tsx (the AutoJob dashboard): the    *)
(* session gate, the simulated bot timer, the application records kept in *)
(* the document store and the locally displayed list.                     *)
(*                                                                         *)
(* The identity provider and the document store are collaborators of the  *)
(* component; they are modelled by the state the component can observe:   *)
(* auth.currentUser (authUser), the stored application documents (store)  *)
(* and the addDoc writes that were issued and not yet acknowledged        *)
(* (inflight).                                                             *)
(***************************************************************************)
EXTENDS Integers, Sequences, FiniteSets, TLC

\* ------------------------------------------------------------- bounds
\* anonymous identities the provider creates (uids 1 .. MaxUsers)
MaxUsers == 2
\* setInterval calls per page load
MaxTimers == 2
\* runs of the interval callback (each issues at most one addDoc)
MaxTicks == 1
\* Math.random() returns k / RandScale for k in 0 .. RandScale - 1
RandScale == 20
\* documents in one applications snapshot (SpecSort)
MaxSnap == 3
\* latest creation instant of a document in a snapshot (SpecSort)
MaxDate == 2
\* calls of saveProfile in one run (SpecProfile)
MaxSaves == 1
\* longest answer typed into the manual-response input (SpecNotes)
MaxAnswerLen == 40
\* answers typed into the manual-response input (sequences of characters)
AnswerTexts == {<<1>>, <<2>>}

\* ---------------------------------------------------------- constants
None == 0
Undefined == "undefined"
NoTimer == 0

Companies == <<"TechCorp", "InovaSoft", "DataSystems", "CloudWalk", "BankOne">>
Roles == <<"Dev Python Jr", "QA Automation", "Frontend React", "Fullstack Engineer", "Data Analyst">>
Platforms == <<"LinkedIn", "Gupy", "Glassdoor", "Infojobs">>
FixedQuestion == "Por que voce quer trabalhar nesta empresa?"
TimeoutNotes == "Erro de timeout no seletor CSS"
NotesLimit == 30

VARIABLES
  isFirebaseAvailable, \* module-level flag set by the Firebase bootstrap
  authUser,            \* auth.currentUser (persisted by the provider across reloads)
  user,                \* useState user
  authLoading,         \* useState authLoading
  loginLoading,        \* useState loginLoading
  hasEntered,          \* useState hasEntered
  isBotRunning,        \* useState isBotRunning
  applications,        \* useState applications (the displayed list)
  botIntervalRef,      \* useRef botIntervalRef.current
  mounted,             \* the App component is mounted
  page,                \* "live", or "unloading" once location.reload() was called
  initPc,              \* initAuth: "signin" while signInAnonymously is pending
  loginPc,             \* handleLogin: "idle", "signin", "timer", "failed"
  timers,              \* live intervals: records [id, user] (user = closure capture)
  nextTimer,           \* next handle setInterval returns
  inflight,            \* addDoc writes issued, not yet acknowledged (in order)
  store,               \* application documents of every identity
  now,                 \* the wall clock (ms)
  issued,              \* identities the provider has created so far
  ticks,               \* runs of the interval callback so far
  botStopped,          \* history: toggleBot stopped the bot of this page and has not started it since
  loggedOut,           \* history: handleLogout returned and the bot was not started since
  loginCalled,         \* history: handleLogin was invoked since the page loaded
  tickIn, tickOut,     \* inputs and result of one job generation (SpecTick)
  sortIn, sortOut,     \* input and result of one snapshot sort (SpecSort)
  noteIn, noteOut,     \* answer and result of one manual response (SpecNotes)
  profile,             \* useState profile (the displayed profile)
  profileStore,        \* the stored profile document of every identity (<<>> = none)
  savePending,         \* setDoc writes of saveProfile issued, not yet settled (in order)
  saves,               \* calls of saveProfile so far
  alertShown           \* text of the last alert() shown

react == <<user, authLoading, loginLoading, hasEntered, isBotRunning, applications,
           botIntervalRef, mounted, page, initPc, loginPc>>
world == <<isFirebaseAvailable, authUser, timers, nextTimer, inflight, store, now, issued, ticks>>
hist == <<botStopped, loggedOut, loginCalled>>
pure == <<tickIn, tickOut, sortIn, sortOut, noteIn, noteOut>>
prof == <<profile, profileStore, savePending, saves, alertShown>>
vars == <<react, world, hist, pure, prof>>

\* ------------------------------------------------------ pure helpers
\* new Date().toISOString(): the instant rendered at millisecond precision
ToISOString(ms) == [iso |-> ms]

\* new Date(s).getTime(): the instant an ISO string denotes
GetTime(s) == s.iso

\* list[Math.floor(Math.random() * list.length)] for the draw k / RandScale
Pick(list, k) == list[((k * Len(list)) \div RandScale) + 1]

\* TickOutcome with the thresholds compared by <= instead of <
TickOutcomeInclusive(k) ==
  IF 10 * k <= 2 * RandScale
    THEN [status |-> "needs_input", questionToAnswer |-> FixedQuestion,
          notes |-> [tpl |-> Undefined, arg |-> <<>>]]
  ELSE IF 10 * k <= 3 * RandScale
    THEN [status |-> "failed", questionToAnswer |-> Undefined,
          notes |-> [tpl |-> TimeoutNotes, arg |-> <<>>]]
  ELSE IF 10 * k <= 5 * RandScale
    THEN [status |-> "pending_bot", questionToAnswer |-> Undefined,
          notes |-> [tpl |-> Undefined, arg |-> <<>>]]
  ELSE [status |-> "applied", questionToAnswer |-> Undefined,
        notes |-> [tpl |-> Undefined, arg |-> <<>>]]

\* the branch on rand: status, question and notes of a generated job
TickOutcome(k) ==
  IF 10 * k < 2 * RandScale
    THEN [status |-> "needs_input", questionToAnswer |-> FixedQuestion,
          notes |-> [tpl |-> Undefined, arg |-> <<>>]]
  ELSE IF 10 * k < 3 * RandScale
    THEN [status |-> "failed", questionToAnswer |-> Undefined,
          notes |-> [tpl |-> TimeoutNotes, arg |-> <<>>]]
  ELSE IF 10 * k < 5 * RandScale
    THEN [status |-> "pending_bot", questionToAnswer |-> Undefined,
          notes |-> [tpl |-> Undefined, arg |-> <<>>]]
  ELSE [status |-> "applied", questionToAnswer |-> Undefined,
        notes |-> [tpl |-> Undefined, arg |-> <<>>]]

\* the newJob object literal; d is the four Math.random() draws, ms the clock
NewJob(d, ms) ==
  [company |-> Pick(Companies, d.c),
   role |-> Pick(Roles, d.r),
   platform |-> Pick(Platforms, d.p),
   date |-> ToISOString(ms),
   status |-> TickOutcome(d.s).status,
   questionToAnswer |-> TickOutcome(d.s).questionToAnswer,
   notes |-> TickOutcome(d.s).notes]

\* responseText.substring(0, n)
Substring0(text, n) == SubSeq(text, 1, IF Len(text) < n THEN Len(text) ELSE n)

\* ManualNotes cutting the answer at 18 characters
ManualNotesShort(responseText) ==
  [tpl |-> "Respondido manualmente: \"${}...\"",
   arg |-> Substring0(responseText, 18)]

\* the template literal `Respondido manualmente: "${...}..."`
ManualNotes(responseText) ==
  [tpl |-> "Respondido manualmente: \"${}...\"",
   arg |-> Substring0(responseText, NotesLimit)]

\* the characters of the template literal before and after ${...}
NotesPrefix ==
  <<"R", "e", "s", "p", "o", "n", "d", "i", "d", "o", " ", "m", "a", "n", "u", "a", "l",
    "m", "e", "n", "t", "e", ":", " ", "\"">>
NotesSuffix ==
  <<".", ".", ".", "\"">>

\* the string the template literal evaluates to, as its sequence of characters
RenderNotes(n) == NotesPrefix \o n.arg \o NotesSuffix

\* ManualUpdate without the questionToAnswer field in the update
ManualUpdateKeepsQuestion(data, responseText) ==
  [data EXCEPT !.status = "applied",
               !.notes = ManualNotes(responseText)]

\* the fields updateDoc merges into the document
ManualUpdate(data, responseText) ==
  [data EXCEPT !.status = "applied",
               !.questionToAnswer = "",
               !.notes = ManualNotes(responseText)]

\* { id: doc.id, ...doc.data() }
ViewOf(d) == [id |-> d.id] @@ d.data

\* CompareApps with the operands swapped (ascending dates)
CompareAppsAscending(a, b) == GetTime(a.date) - GetTime(b.date)

\* the comparator handed to apps.sort
CompareApps(a, b) == GetTime(b.date) - GetTime(a.date)

\* one insertion of the stable sort: x goes before the first element that
\* the comparator orders after it
InsertSorted(s, x) ==
  LET later == {i \in 1..Len(s) : CompareApps(s[i], x) > 0}
      at == IF later = {} THEN Len(s) + 1
            ELSE CHOOSE i \in later : \A j \in later : i <= j
  IN SubSeq(s, 1, at - 1) \o <<x>> \o SubSeq(s, at, Len(s))

RECURSIVE SortApps(_)
\* Array.prototype.sort with CompareApps (stable)
SortApps(s) ==
  IF s = <<>> THEN <<>>
  ELSE InsertSorted(SortApps(SubSeq(s, 1, Len(s) - 1)), s[Len(s)])

\* the applications onSnapshot handler: the list it hands to setApplications
\* for a snapshot listing the documents docs
OnAppsSnapshot(docs) == SortApps([i \in 1..Len(docs) |-> ViewOf(docs[i])])

\* the orders in which a snapshot can list the documents of S
Orders(S) ==
  {f \in [1..Cardinality(S) -> S] : \A i, j \in 1..Cardinality(S) : f[i] = f[j] => i = j}

\* Screen without the hasEntered half of showLoginScreen
ScreenNoEntryGate ==
  IF authLoading THEN "loading"
  ELSE IF user = None THEN "login"
  ELSE "shell"

\* the render gate: which screen App returns
Screen ==
  IF authLoading THEN "loading"
  ELSE IF user = None \/ ~hasEntered THEN "login"
  ELSE "shell"

\* the documents of the applications collection of identity u
DocsOf(u) == {d \in store : d.owner = u}

\* the callback registered with onAuthStateChanged
OnAuthStateChanged(currentUser) ==
  /\ user' = currentUser
  /\ isBotRunning' = IF currentUser = None THEN FALSE ELSE isBotRunning

\* the provider changes auth.currentUser and notifies the subscribed listener
AuthStateChange(u) ==
  /\ authUser' = u
  /\ IF mounted THEN OnAuthStateChanged(u) ELSE UNCHANGED <<user, isBotRunning>>

\* signInAnonymously resolves: the current anonymous identity is kept, or a
\* new one is created
SignInAnonymously ==
  IF authUser = None
    THEN /\ issued < MaxUsers
         /\ issued' = issued + 1
         /\ AuthStateChange(issued + 1)
    ELSE UNCHANGED <<issued, authUser, user, isBotRunning>>

\* the persisted identity has been delivered to the listener (or there is none)
InitialDelivered == ~mounted \/ authUser = None \/ user = authUser

NoDraw == [c |-> 0, r |-> 0, p |-> 0, s |-> 0, t |-> 0]

\* the initial value of the profile state
EmptyProfile ==
  [fullName |-> "", email |-> "", linkedinUrl |-> "", bio |-> "", experience |-> "",
   skills |-> ""]

\* a default profile without the placeholder name
DefaultProfileUnnamed ==
  [fullName |-> "", email |-> "", linkedinUrl |-> "", bio |-> "", experience |-> "",
   skills |-> ""]

\* defaultProfile of the profile onSnapshot handler (the name is 'Novo Usuário',
\* spelled here without its accent)
DefaultProfile ==
  [fullName |-> "Novo Usuario", email |-> "", linkedinUrl |-> "", bio |-> "",
   experience |-> "", skills |-> ""]

NoAlert == ""
SavedAlert == "Perfil salvo com sucesso na nuvem!"
ErrorAlert == "Erro ao salvar perfil. Verifique as chaves do Firebase."

\* no profile document stored, no save issued, no alert shown, no answer given
InitProfile ==
  /\ profile = EmptyProfile
  /\ profileStore = [u \in 1..MaxUsers |-> <<>>]
  /\ savePending = <<>>
  /\ saves = 0
  /\ alertShown = NoAlert

InitNotes ==
  /\ noteIn = <<>>
  /\ noteOut = <<>>

\* --------------------------------------------------------------- Init
MountState ==
  /\ user = None
  /\ authLoading = TRUE
  /\ loginLoading = FALSE
  /\ hasEntered = FALSE
  /\ isBotRunning = FALSE
  /\ applications = <<>>
  /\ botIntervalRef = NoTimer
  /\ mounted = TRUE
  /\ page = "live"
  /\ initPc = IF isFirebaseAvailable THEN "signin" ELSE "off"
  /\ loginPc = "idle"

InitApp ==
  /\ authUser = None
  /\ MountState
  /\ timers = {}
  /\ nextTimer = 1
  /\ inflight = <<>>
  /\ store = {}
  /\ now = 0
  /\ issued = 0
  /\ ticks = 0
  /\ botStopped = FALSE
  /\ loggedOut = FALSE
  /\ loginCalled = FALSE

Init ==
  /\ isFirebaseAvailable \in BOOLEAN
  /\ InitApp
  /\ tickIn = NoDraw
  /\ tickOut = <<>>
  /\ sortIn = <<>>
  /\ sortOut = <<>>
  /\ InitNotes
  /\ InitProfile

\* ------------------------------------------------------------ actions
\* clearInterval(h)
ClearInterval(h) == {t \in timers : t.id # h}

\* after a reload the provider restores the persisted identity and calls the
\* onAuthStateChanged listener with it
InitialAuthDelivery ==
  /\ mounted
  /\ authUser # None
  /\ user # authUser
  /\ OnAuthStateChanged(authUser)
  /\ UNCHANGED <<authLoading, loginLoading, hasEntered, applications, botIntervalRef,
                 mounted, page, initPc, loginPc>>
  /\ UNCHANGED <<world, botStopped, loggedOut, loginCalled, pure, prof>>

\* initAuth: signInAnonymously settles (ok or rejected), then the finally block
InitAuthResolve(ok) ==
  /\ initPc = "signin"
  /\ InitialDelivered
  /\ IF ok THEN SignInAnonymously ELSE UNCHANGED <<issued, authUser, user, isBotRunning>>
  /\ authLoading' = IF mounted THEN FALSE ELSE authLoading
  /\ initPc' = "done"
  /\ UNCHANGED <<loginLoading, hasEntered, applications, botIntervalRef, mounted, page,
                 loginPc>>
  /\ UNCHANGED <<isFirebaseAvailable, timers, nextTimer, inflight, store, now, ticks>>
  /\ UNCHANGED <<botStopped, loggedOut, loginCalled, pure, prof>>

\* handleLogin up to its first suspension point
HandleLogin ==
  /\ mounted
  /\ page = "live"
  /\ Screen = "login"
  /\ ~loginLoading
  /\ loginLoading' = TRUE
  /\ loginPc' = IF authUser = None THEN "signin" ELSE "timer"
  /\ loginCalled' = TRUE
  /\ UNCHANGED <<user, authLoading, hasEntered, isBotRunning, applications,
                 botIntervalRef, mounted, page, initPc>>
  /\ UNCHANGED <<world, botStopped, loggedOut, pure, prof>>

\* handleLogin: the awaited signInAnonymously settles; a rejection leaves the
\* handler without reaching setTimeout
LoginSignIn(ok) ==
  /\ loginPc = "signin"
  /\ IF ok THEN SignInAnonymously ELSE UNCHANGED <<issued, authUser, user, isBotRunning>>
  /\ loginPc' = IF ok THEN "timer" ELSE "failed"
  /\ UNCHANGED <<authLoading, loginLoading, hasEntered, applications, botIntervalRef,
                 mounted, page, initPc>>
  /\ UNCHANGED <<isFirebaseAvailable, timers, nextTimer, inflight, store, now, ticks>>
  /\ UNCHANGED <<botStopped, loggedOut, loginCalled, pure, prof>>

\* handleLogin: the 800 ms timeout callback
LoginTimer ==
  /\ loginPc = "timer"
  /\ loginPc' = "idle"
  /\ IF mounted
       THEN loginLoading' = FALSE /\ hasEntered' = TRUE
       ELSE UNCHANGED <<loginLoading, hasEntered>>
  /\ UNCHANGED <<user, authLoading, isBotRunning, applications, botIntervalRef,
                 mounted, page, initPc>>
  /\ UNCHANGED <<world, botStopped, loggedOut, loginCalled, pure, prof>>

\* toggleBot (the button is part of the shell)
ToggleBot ==
  /\ mounted
  /\ page = "live"
  /\ Screen = "shell"
  /\ IF isBotRunning
       THEN /\ isBotRunning' = FALSE
            /\ timers' = IF botIntervalRef # NoTimer
                           THEN ClearInterval(botIntervalRef) ELSE timers
            /\ botStopped' = TRUE
            /\ UNCHANGED <<botIntervalRef, nextTimer, loggedOut>>
       ELSE /\ nextTimer <= MaxTimers
            /\ isBotRunning' = TRUE
            /\ timers' = timers \cup {[id |-> nextTimer, user |-> user]}
            /\ botIntervalRef' = nextTimer
            /\ nextTimer' = nextTimer + 1
            /\ botStopped' = FALSE
            /\ loggedOut' = FALSE
  /\ UNCHANGED <<user, authLoading, loginLoading, hasEntered, applications, mounted,
                 page, initPc, loginPc>>
  /\ UNCHANGED <<isFirebaseAvailable, authUser, inflight, store, now, issued, ticks>>
  /\ UNCHANGED <<loginCalled, pure, prof>>

\* the draws of one tick in the main specification: every result of the
\* Math.random() that decides the status, and the clock reading: the first
\* reading is the origin, a later one equals the previous reading or exceeds
\* it; the three list picks draw 0 here and range over every result in SpecTick
TickDraws ==
  [c : {0}, r : {0}, p : {0}, s : 0..(RandScale - 1),
   t : IF ticks = 0 THEN {now} ELSE {now, now + 1}]

\* one run of the interval callback of timer t, up to the awaited addDoc
Tick(t, d) ==
  /\ t \in timers
  /\ ticks < MaxTicks
  /\ ticks' = ticks + 1
  /\ IF t.user = None
       THEN UNCHANGED <<inflight, now>>
       ELSE /\ now' = d.t
            /\ inflight' = Append(inflight, [owner |-> t.user, data |-> NewJob(d, d.t)])
  /\ UNCHANGED <<react, isFirebaseAvailable, authUser, timers, nextTimer, store, issued>>
  /\ UNCHANGED <<botStopped, loggedOut, loginCalled, pure, prof>>

\* the store acknowledges the oldest addDoc: the document exists from now on
AddDocCommit ==
  /\ inflight # <<>>
  /\ store' = store \cup {[id |-> Cardinality(store) + 1,
                            owner |-> Head(inflight).owner,
                            data |-> Head(inflight).data]}
  /\ inflight' = Tail(inflight)
  /\ UNCHANGED <<react, isFirebaseAvailable, authUser, timers, nextTimer, now, issued, ticks>>
  /\ UNCHANGED <<botStopped, loggedOut, loginCalled, pure, prof>>

\* the oldest addDoc is rejected: the catch block logs it
AddDocFail ==
  /\ inflight # <<>>
  /\ inflight' = Tail(inflight)
  /\ UNCHANGED <<react, isFirebaseAvailable, authUser, timers, nextTimer, store, now, issued, ticks>>
  /\ UNCHANGED <<botStopped, loggedOut, loginCalled, pure, prof>>

\* handleManualResponse, called from the input or button rendered for the
\* i-th displayed record (rendered only while that record shows needs_input);
\* updateDoc rejects when the document does not exist or the write fails
HandleManualResponse(i, responseText, ok) ==
  /\ mounted
  /\ page = "live"
  /\ Screen = "shell"
  /\ i \in 1..Len(applications)
  /\ applications[i].status = "needs_input"
  /\ LET target == {d \in DocsOf(user) : d.id = applications[i].id}
     IN store' = IF ok
                   THEN (store \ target) \cup
                        {[d EXCEPT !.data = ManualUpdate(d.data, responseText)] : d \in target}
                   ELSE store
  /\ UNCHANGED <<react, isFirebaseAvailable, authUser, timers, nextTimer, inflight, now, issued, ticks>>
  /\ UNCHANGED <<botStopped, loggedOut, loginCalled, pure, prof>>

\* the applications onSnapshot handler; f is the order the snapshot lists
\* the documents in
AppsSnapshot(f) ==
  /\ mounted
  /\ user # None
  /\ f \in Orders(DocsOf(user))
  /\ applications' = OnAppsSnapshot(f)
  /\ UNCHANGED <<user, authLoading, loginLoading, hasEntered, isBotRunning,
                 botIntervalRef, mounted, page, initPc, loginPc>>
  /\ UNCHANGED <<world, botStopped, loggedOut, loginCalled, pure, prof>>

\* handleLogout: returns with the reload requested
HandleLogout ==
  /\ mounted
  /\ page = "live"
  /\ Screen = "shell"
  /\ isBotRunning' = FALSE
  /\ page' = "unloading"
  /\ loggedOut' = TRUE
  /\ UNCHANGED <<user, authLoading, loginLoading, hasEntered, applications,
                 botIntervalRef, mounted, initPc, loginPc>>
  /\ UNCHANGED <<world, botStopped, loginCalled, pure, prof>>

\* the reload completes: the old document with its timers and pending
\* callbacks is gone, the module and the component start afresh
PageReload ==
  /\ page = "unloading"
  /\ UNCHANGED <<isFirebaseAvailable, authUser, inflight, store, now, issued, ticks>>
  /\ user' = None
  /\ authLoading' = TRUE
  /\ loginLoading' = FALSE
  /\ hasEntered' = FALSE
  /\ isBotRunning' = FALSE
  /\ applications' = <<>>
  /\ botIntervalRef' = NoTimer
  /\ mounted' = TRUE
  /\ page' = "live"
  /\ initPc' = IF isFirebaseAvailable THEN "signin" ELSE "off"
  /\ loginPc' = "idle"
  /\ timers' = {}
  /\ nextTimer' = 1
  /\ loginCalled' = FALSE
  /\ botStopped' = FALSE
  /\ profile' = EmptyProfile
  /\ savePending' = [k \in DOMAIN savePending |-> [savePending[k] EXCEPT !.live = FALSE]]
  /\ UNCHANGED <<loggedOut, pure, profileStore, saves, alertShown>>

\* the component is unmounted: the three effect cleanups run and the
\* component's state is discarded
Unmount ==
  /\ mounted
  /\ page = "live"
  /\ mounted' = FALSE
  /\ timers' = IF botIntervalRef # NoTimer THEN ClearInterval(botIntervalRef) ELSE timers
  /\ user' = None
  /\ authLoading' = TRUE
  /\ loginLoading' = FALSE
  /\ hasEntered' = FALSE
  /\ isBotRunning' = FALSE
  /\ applications' = <<>>
  /\ botIntervalRef' = NoTimer
  /\ UNCHANGED <<page, initPc, loginPc>>
  /\ UNCHANGED <<isFirebaseAvailable, authUser, nextTimer, inflight, store, now, issued, ticks>>
  /\ profile' = EmptyProfile
  /\ UNCHANGED <<botStopped, loggedOut, loginCalled, pure>>
  /\ UNCHANGED <<profileStore, savePending, saves, alertShown>>

\* the provider ends the session (the anonymous account was removed or its
\* token revoked): the listener is called with null
SessionRevoked ==
  /\ authUser # None
  /\ AuthStateChange(None)
  /\ UNCHANGED <<authLoading, loginLoading, hasEntered, applications, botIntervalRef,
                 mounted, page, initPc, loginPc>>
  /\ UNCHANGED <<isFirebaseAvailable, timers, nextTimer, inflight, store, now, issued, ticks>>
  /\ UNCHANGED <<botStopped, loggedOut, loginCalled, pure, prof>>

\* ---- the profile: subscription, editing and saving ----

\* the profile inputs typed into (one single-line input and one textarea of the six
\* inputs, which share one onChange shape), and the texts typed
ProfileFields == {"fullName", "bio"}
EditTexts == {"Ana"}

\* the profile a snapshot of the stored document delivers to setProfile
OnProfileSnapshot(stored) ==
  IF stored # <<>> THEN stored[1] ELSE DefaultProfile

\* the alert saveProfile shows when its write settles: a mutation that stays
\* silent on failure, then the code
SaveAlertSilent(ok) == IF ok THEN SavedAlert ELSE alertShown
SaveAlert(ok) == IF ok THEN SavedAlert ELSE ErrorAlert

\* the profile listener of the signed-in identity receives the stored document
ProfileSnapshot ==
  /\ mounted
  /\ page = "live"
  /\ user # None
  /\ profile' = OnProfileSnapshot(profileStore[user])
  /\ UNCHANGED <<react, world, hist, pure>>
  /\ UNCHANGED <<profileStore, savePending, saves, alertShown>>

\* onChange of one profile input
EditProfile(f, v) ==
  /\ mounted
  /\ page = "live"
  /\ Screen = "shell"
  /\ profile[f] # v
  /\ profile' = [profile EXCEPT ![f] = v]
  /\ UNCHANGED <<react, world, hist, pure>>
  /\ UNCHANGED <<profileStore, savePending, saves, alertShown>>

\* saveProfile up to its await: setDoc is issued with the profile and the identity
\* of this render
SaveProfile ==
  /\ mounted
  /\ page = "live"
  /\ Screen = "shell"
  /\ user # None
  /\ saves < MaxSaves
  /\ saves' = saves + 1
  /\ savePending' = Append(savePending, [uid |-> user, data |-> profile, live |-> TRUE])
  /\ UNCHANGED <<react, world, hist, pure>>
  /\ UNCHANGED <<profile, profileStore, alertShown>>

\* the oldest setDoc settles: the document is replaced or the write is rejected,
\* and the continuation of saveProfile alerts unless its page is gone
SaveSettle(ok) ==
  /\ savePending # <<>>
  /\ LET w == Head(savePending) IN
       /\ profileStore' = IF ok THEN [profileStore EXCEPT ![w.uid] = <<w.data>>]
                                ELSE profileStore
       /\ alertShown' = IF w.live THEN SaveAlert(ok) ELSE alertShown
  /\ savePending' = Tail(savePending)
  /\ UNCHANGED <<react, world, hist, pure>>
  /\ UNCHANGED <<profile, saves>>

Next ==
  \/ InitialAuthDelivery
  \/ \E ok \in BOOLEAN : InitAuthResolve(ok)
  \/ HandleLogin
  \/ \E ok \in BOOLEAN : LoginSignIn(ok)
  \/ LoginTimer
  \/ ToggleBot
  \/ \E t \in timers, d \in TickDraws : Tick(t, d)
  \/ AddDocCommit
  \/ AddDocFail
  \/ \E i \in 1..MaxTicks, a \in AnswerTexts, ok \in BOOLEAN : HandleManualResponse(i, a, ok)
  \/ \E f \in Orders(DocsOf(user)) : AppsSnapshot(f)
  \/ HandleLogout
  \/ PageReload
  \/ Unmount
  \/ SessionRevoked

Spec == Init /\ [][Next]_vars

\* ------------------------------------------- job generation on its own
\* every result of the draw that decides the status and of the company pick,
\* the extreme results of the role and platform picks
TickInputs ==
  [c : 0..(RandScale - 1), r : {0, RandScale - 1}, p : {0, RandScale - 1},
   s : 0..(RandScale - 1), t : {0}]

InitTick ==
  /\ isFirebaseAvailable = TRUE
  /\ InitApp
  /\ tickIn \in TickInputs
  /\ tickOut = <<>>
  /\ sortIn = <<>>
  /\ sortOut = <<>>
  /\ InitNotes
  /\ InitProfile

\* the interval callback builds newJob from the draws tickIn
GenerateJob ==
  /\ tickOut = <<>>
  /\ tickOut' = <<NewJob(tickIn, tickIn.t)>>
  /\ UNCHANGED <<react, world, hist, tickIn, sortIn, sortOut, noteIn, noteOut, prof>>

SpecTick == InitTick /\ [][GenerateJob]_vars

\* ------------------------------------------ snapshot sorting on its own
\* a document created at instant ms
DocAt(n, ms) == [id |-> n, owner |-> 1, data |-> NewJob(NoDraw, ms)]

\* the snapshots of up to MaxSnap documents with distinct ids, listed in any
\* order, created at any instants up to MaxDate
SnapshotInputs ==
  UNION {{[i \in 1..n |-> DocAt(f[i], g[i])] : f \in Orders(1..n), g \in [1..n -> 0..MaxDate]}
         : n \in 0..MaxSnap}

InitSort ==
  /\ isFirebaseAvailable = TRUE
  /\ InitApp
  /\ tickIn = NoDraw
  /\ tickOut = <<>>
  /\ sortIn \in SnapshotInputs
  /\ sortOut = <<>>
  /\ InitNotes
  /\ InitProfile

\* the applications onSnapshot handler runs on the snapshot sortIn
ApplySort ==
  /\ sortOut = <<>>
  /\ sortOut' = <<OnAppsSnapshot(sortIn)>>
  /\ UNCHANGED <<react, world, hist, tickIn, tickOut, sortIn, noteIn, noteOut, prof>>

SpecSort == InitSort /\ [][ApplySort]_vars

\* ---- one manual response applied to a record that needs input ----

\* the answer of the worked example of the manual response
ExampleAnswer ==
  <<"I", " ", "l", "o", "v", "e", " ", "t", "h", "i", "s", " ", "c", "o", "m", "p", "a",
    "n", "y", " ", "b", "e", "c", "a", "u", "s", "e", ".", ".", ".">>

\* answers of every length up to MaxAnswerLen: the example text read cyclically
\* from one of its first characters
AnswerOfLen(o, n) == [k \in 1..n |-> ExampleAnswer[((k - 1 + o) % Len(ExampleAnswer)) + 1]]
NoteInputs == {AnswerOfLen(o, n) : o \in 0..2, n \in 0..MaxAnswerLen}

\* the record of a tick whose status draw fell below the needs_input threshold
NeedsInputJob == NewJob(NoDraw, 0)

InitNote ==
  /\ isFirebaseAvailable = TRUE
  /\ InitApp
  /\ tickIn = NoDraw
  /\ tickOut = <<>>
  /\ sortIn = <<>>
  /\ sortOut = <<>>
  /\ noteIn \in NoteInputs
  /\ noteOut = <<>>
  /\ InitProfile

\* updateDoc of handleManualResponse merges its fields into the record
ApplyNote ==
  /\ noteOut = <<>>
  /\ noteOut' = <<ManualUpdate(NeedsInputJob, noteIn)>>
  /\ UNCHANGED <<react, world, hist, tickIn, tickOut, sortIn, sortOut, noteIn, prof>>

SpecNotes == InitNote /\ [][ApplyNote]_vars

\* ---- the session with the profile editor, without the bot ----

NextProfile ==
  \/ InitialAuthDelivery
  \/ \E ok \in BOOLEAN : InitAuthResolve(ok)
  \/ HandleLogin
  \/ \E ok \in BOOLEAN : LoginSignIn(ok)
  \/ LoginTimer
  \/ HandleLogout
  \/ PageReload
  \/ Unmount
  \/ SessionRevoked
  \/ ProfileSnapshot
  \/ \E f \in ProfileFields, v \in EditTexts : EditProfile(f, v)
  \/ SaveProfile
  \/ \E ok \in BOOLEAN : SaveSettle(ok)

SpecProfile == Init /\ [][NextProfile]_vars

\* ============================================================== claims
\* ids of the stored application documents
DocIds(S) == {d.id : d \in S}

\* some interval callback runs in this step
TickFires == \E t \in timers, d \in TickDraws : Tick(t, d)

\* some call of handleManualResponse whose updateDoc is accepted happens in this step
ManualResponseStep == \E i \in 1..MaxTicks, a \in AnswerTexts : HandleManualResponse(i, a, TRUE)

\* C1: in every reachable state at most one interval started by toggleBot is live.
C1_AtMostOneTimer == Cardinality(timers) <= 1

\* C2: once toggleBot has stopped the bot, no interval callback runs until the
\* bot is started again.
C2_NoTickAfterStop == [][botStopped => ~TickFires]_vars

\* C3: once handleLogout has returned, no application document is created
\* (until the bot is started again).
C3_NoRecordAfterLogout == [][loggedOut => DocIds(store') = DocIds(store)]_vars

\* C4: every live interval belongs to the mounted component and was started
\* under the identity that is current: none survives an identity change or the
\* unmount.
C4_TimersCancelled == \A t \in timers : mounted /\ t.user = user

\* C5: the shell is rendered only when the identity is set, hasEntered is true
\* and the loading state is over, which takes a handleLogin call on this page;
\* in every other state the loading or the entry screen is rendered.
C5_ShellGate ==
  /\ Screen = "shell" => (user # None /\ hasEntered /\ ~authLoading /\ loginCalled)
  /\ (user = None \/ ~hasEntered \/ authLoading) => Screen \in {"loading", "login"}

\* the shell is shown again after a logout and reload, for the identity the
\* provider restored, once handleLogin was called on the new page
C5_Witness == Screen = "shell" /\ page = "live" /\ loggedOut /\ loginCalled /\ user # None

\* C6: an accepted handleManualResponse leaves its record applied with an empty
\* question, and leaves a record that is already applied exactly as it was
\* (the second of two calls in a row changes nothing).
C6_ResolveIdempotent ==
  [][ManualResponseStep =>
       /\ \A d \in store' : d \notin store =>
            d.data.status = "applied" /\ d.data.questionToAnswer = ""
       /\ \A d \in store : d.data.status = "applied" => d \in store']_vars

\* C7: a stored record changes only by going from needs_input to applied: a
\* record that is applied, failed or pending_bot keeps every field, and no
\* record is deleted.
C7_OnlyNeedsInputMutates ==
  [][/\ \A d \in store : d.data.status # "needs_input" => d \in store'
     /\ DocIds(store) \subseteq DocIds(store')]_vars

\* C8: a stored record carries a question exactly while its status is
\* needs_input (then it is the fixed question); every other record has the
\* question absent or cleared, and a resolved record has it cleared.
C8_QuestionOnlyWhileNeedsInput ==
  \A d \in store :
    /\ d.data.status = "needs_input" <=> d.data.questionToAnswer = FixedQuestion
    /\ d.data.status # "needs_input" => d.data.questionToAnswer \in {"", Undefined}
    /\ d.data.notes = ManualNotes(d.data.notes.arg) => d.data.questionToAnswer = ""

\* a record created with needs_input was resolved and its question is cleared
C8_Witness ==
  \E d \in store : d.data.status = "applied" /\ d.data.questionToAnswer = ""
                   /\ d.data.notes \in {ManualNotes(a) : a \in AnswerTexts}

\* C9: the draw r = tickIn.s / RandScale decides the generated job by the
\* thresholds: r < 0.20 needs_input with the fixed question and no notes;
\* 0.20 <= r < 0.30 failed with the timeout notes and no question;
\* 0.30 <= r < 0.50 pending_bot with neither; r >= 0.50 applied with neither.
C9_StatusThresholds ==
  tickOut # <<>> =>
    LET job == tickOut[1]
        r10 == 10 * tickIn.s
        noNotes == [tpl |-> Undefined, arg |-> <<>>]
    IN /\ job.status \in {"needs_input", "failed", "pending_bot", "applied"}
       /\ r10 < 2 * RandScale =>
            /\ job.status = "needs_input"
            /\ job.questionToAnswer = FixedQuestion
            /\ job.notes = noNotes
       /\ (2 * RandScale <= r10 /\ r10 < 3 * RandScale) =>
            /\ job.status = "failed"
            /\ job.notes = [tpl |-> TimeoutNotes, arg |-> <<>>]
            /\ job.questionToAnswer = Undefined
       /\ (3 * RandScale <= r10 /\ r10 < 5 * RandScale) =>
            /\ job.status = "pending_bot"
            /\ job.questionToAnswer = Undefined
            /\ job.notes = noNotes
       /\ 5 * RandScale <= r10 =>
            /\ job.status = "applied"
            /\ job.questionToAnswer = Undefined
            /\ job.notes = noNotes

\* a job was generated from the draw that is exactly 0.20
C9_Witness == tickOut # <<>> /\ 10 * tickIn.s = 2 * RandScale /\ tickOut[1].status = "failed"

\* C10: the list the snapshot handler displays is a permutation of the
\* snapshot's records, in descending date order, and records with equal dates
\* keep the order the snapshot listed them in.
C10_SortedStablePermutation ==
  sortOut # <<>> =>
    LET out == sortOut[1]
        n == Len(sortIn)
        posIn(a) == CHOOSE i \in 1..n : ViewOf(sortIn[i]) = a
    IN /\ Len(out) = n
       /\ \A i \in 1..n : \E j \in 1..n : out[j] = ViewOf(sortIn[i])
       /\ \A i, j \in 1..n : i < j => GetTime(out[i].date) >= GetTime(out[j].date)
       /\ \A i, j \in 1..n :
            (i < j /\ GetTime(out[i].date) = GetTime(out[j].date)) => posIn(out[i]) < posIn(out[j])

\* a snapshot listing two records of equal date after an older one was sorted
C10_Witness ==
  /\ sortOut # <<>>
  /\ Len(sortIn) >= 3
  /\ GetTime(sortIn[1].data.date) < GetTime(sortIn[2].data.date)
  /\ GetTime(sortIn[2].data.date) = GetTime(sortIn[3].data.date)
  /\ sortOut[1][1] = ViewOf(sortIn[2])
  /\ sortOut[1][2] = ViewOf(sortIn[3])

\* a step in which saveProfile is called, and one in which its write settles
SaveCalled == saves' = saves + 1
SaveSettled == savePending # <<>> /\ savePending' = Tail(savePending)

\* C11: saveProfile writes the whole local profile of the call over the stored
\* document of the identity; it never changes the displayed profile; when the
\* write settles, either the stored document is exactly that profile and the
\* success alert shows, or the stored profiles are unchanged and the error alert
\* shows (the alert needs the page of the call to be still there).
C11_SaveProfileContract ==
  [][ /\ SaveCalled =>
           /\ profile' = profile
           /\ profileStore' = profileStore
           /\ savePending' =
                Append(savePending, [uid |-> user, data |-> profile, live |-> TRUE])
      /\ SaveSettled =>
           LET w == Head(savePending) IN
             /\ profile' = profile
             /\ \/ /\ profileStore' = [profileStore EXCEPT ![w.uid] = <<w.data>>]
                   /\ w.live => alertShown' = SavedAlert
                \/ /\ profileStore' = profileStore
                   /\ w.live => alertShown' = ErrorAlert ]_vars

\* a save of an edited profile has failed: the error alert is up, nothing is
\* stored, and the edited value is still displayed
C11_Witness ==
  /\ alertShown = ErrorAlert
  /\ savePending = <<>>
  /\ user # None
  /\ profileStore[user] = <<>>
  /\ profile.fullName = "Ana"

\* the notes the worked example of the specification states, and the notes of the
\* same answer cut at 30 characters
ExampleNotesStated ==
  <<"R", "e", "s", "p", "o", "n", "d", "i", "d", "o", " ", "m", "a", "n", "u", "a", "l",
    "m", "e", "n", "t", "e", ":", " ", "\"", "I", " ", "l", "o", "v", "e", " ", "t", "h",
    "i", "s", " ", "c", "o", "m", "p", "a", "n", ".", ".", ".", "\"">>
ExampleNotesCut30 ==
  <<"R", "e", "s", "p", "o", "n", "d", "i", "d", "o", " ", "m", "a", "n", "u", "a", "l",
    "m", "e", "n", "t", "e", ":", " ", "\"", "I", " ", "l", "o", "v", "e", " ", "t", "h",
    "i", "s", " ", "c", "o", "m", "p", "a", "n", "y", " ", "b", "e", "c", "a", "u", "s",
    "e", ".", ".", ".", ".", ".", ".", "\"">>

\* the first characters of an answer, at most n of them
FirstChars(text, n) == [k \in 1..(IF Len(text) < n THEN Len(text) ELSE n) |-> text[k]]

\* C12 as stated: the notes are the audit string around at most 30 characters of
\* the answer, the status is applied, and the answer of the example yields
\* `Respondido manualmente: "I love this compan..."`.
C12_NotesAsStated ==
  noteOut # <<>> =>
    /\ noteOut[1].status = "applied"
    /\ RenderNotes(noteOut[1].notes) = NotesPrefix \o FirstChars(noteIn, NotesLimit) \o NotesSuffix
    /\ noteIn = ExampleAnswer => RenderNotes(noteOut[1].notes) = ExampleNotesStated

\* C12 amended: the notes are the audit string around the first 30 characters of
\* the answer (the whole answer when it is shorter) followed by three dots, the
\* status is applied, and the answer of the example, which is 30 characters long,
\* is shown whole.
C12_NotesTruncation ==
  noteOut # <<>> =>
    /\ noteOut[1].status = "applied"
    /\ noteOut[1].questionToAnswer = ""
    /\ RenderNotes(noteOut[1].notes) = NotesPrefix \o FirstChars(noteIn, NotesLimit) \o NotesSuffix
    /\ Len(noteOut[1].notes.arg) <= NotesLimit
    /\ noteIn = ExampleAnswer => RenderNotes(noteOut[1].notes) = ExampleNotesCut30

\* the answer of the example was applied
C12_Witness ==
  /\ noteOut # <<>>
  /\ noteIn = ExampleAnswer
  /\ noteOut[1].status = "applied"

\* C14: when the profile listener receives a snapshot without a stored document,
\* the displayed profile becomes {fullName: 'Novo Usuario', every other field
\* empty} and no stored profile changes; a stored profile changes, and an absent
\* one comes to exist, only when a write of saveProfile settles, for the identity
\* that write was issued under.
C14_DefaultProfileNotWritten ==
  [][ /\ (ProfileSnapshot /\ profileStore[user] = <<>>) =>
           /\ profile' = [fullName |-> "Novo Usuario", email |-> "", linkedinUrl |-> "",
                          bio |-> "", experience |-> "", skills |-> ""]
           /\ profileStore' = profileStore
      /\ \A u \in DOMAIN profileStore :
           profileStore'[u] # profileStore[u] =>
             (SaveSettled /\ Head(savePending).uid = u) ]_vars

\* the listener of an identity without a stored profile has delivered: the
\* default is displayed over an earlier edit, and nothing is stored for the identity
C14_Witness ==
  /\ user # None
  /\ profileStore[user] = <<>>
  /\ profile.fullName = "Novo Usuario"
  /\ profile.bio = ""
  /\ saves = 0
  /\ savePending = <<>>

\* C13: once no sign-in is in flight and the identity is none (sign-in failed, or
\* the auth backend is unavailable), the page shows the entry screen: not the shell,
\* and not the loading screen.
C13_EntryScreenWithoutIdentity ==
  (mounted /\ page = "live" /\ user = None /\ initPc # "signin") => Screen = "login"

\* C13 with the backend available: the rule above holds after a failed sign-in
C13_EntryScreenAfterFailedSignIn ==
  isFirebaseAvailable => C13_EntryScreenWithoutIdentity

\* C15: a tick that issues a write does so under the identity that is signed in
\* when it fires: the identity its timer captured is the current one, which is
\* not none.
C15_TickWritesUnderCurrentIdentity ==
  [][\A t \in timers :
       (t.user # None /\ \E d \in TickDraws : Tick(t, d)) => t.user = user]_vars

====
